---- MODULE Spec2Model ----
(***************************************************************************)
(* Model of the ASR session manager (app/main/asr/asr-manager.ts) and of   *)
(* the protocol client it drives (app/main/asr/asr-client.ts).             *)
(*                                                                         *)
(* Execution model.  The code runs on one JavaScript event loop.  A step   *)
(* of the model is one run-to-completion segment of code: the synchronous  *)
(* part of a call, or the code between two awaits.                         *)
(*   - mq is the microtask queue (FIFO): the continuations of awaits on    *)
(*     promises that are already settled.                                  *)
(*   - tasks is the bag of pending macrotask completions: gzip/gunzip      *)
(*     jobs of the thread pool and the poll timers of waitForFinalResult.  *)
(*     Transport events and flush-timer ticks are macrotasks as well.      *)
(*     A macrotask runs only when the microtask queue is empty.            *)
(*   - Caller code runs in a macrotask of its own (the microtask queue is  *)
(*     empty), directly after another call made in the same segment, or in *)
(*     an event subscriber that the manager invokes as the last statement  *)
(*     of a segment (callerTurn).                                          *)
(***************************************************************************)
EXTENDS Integers, Sequences, FiniteSets, Bags, TLC

\* ------------------------------------------------------------------ bounds
\* protocol clients (sessions) the caller creates in the "restart" workload
MaxClients == 2
\* inbound frames the server sends in the "talk" workload
MaxMsgs == 2
\* audio chunks the caller feeds in the "talk" workload
TalkChunks == 1
\* audio chunks the caller feeds in the "audio" workload
MaxChunks == 2
\* length of the microtask queue
MaxQueue == 2
\* config.maxHistorySize of the manager under test
MaxHistorySize == 1
\* advance of Date.now() between two polls of waitForFinalResult
ClockStepMs == 5000
\* inbound frames the server sends in the "blank" workload
BlankMsgs == 2
\* inbound frames the server sends in the "malformed" workload
MalformedMsgs == 1
\* inbound frames the server sends in the "flags" workload
FlagMsgs == 1

\* What the environment does in one run: how many sessions the caller starts,
\* how many frames the server sends, how many chunks the caller feeds, and
\* which frames the server chooses from ("results": InboundFrames, "blank":
\* BlankFrames, "malformed": MalformedFrames, "flags": FlagFrames).
Workload(c, m, k) == [clients |-> c, msgs |-> m, chunks |-> k, frames |-> "results"]

\* blank: one session whose server sends responses with little or no content
BlankWorkload == [clients |-> 1, msgs |-> BlankMsgs, chunks |-> 0, frames |-> "blank"]

\* malformed: one session whose server sends frames that cannot be decoded
MalformedWorkload ==
    [clients |-> 1, msgs |-> MalformedMsgs, chunks |-> 0, frames |-> "malformed"]

\* flags: one session whose server sends responses with every combination of
\* the sequence and last-packet flags
FlagWorkload == [clients |-> 1, msgs |-> FlagMsgs, chunks |-> 0, frames |-> "flags"]

Workloads ==
    { Workload(1, MaxMsgs, TalkChunks),     \* talk: one session with results
      Workload(1, 0, MaxChunks),            \* audio: one session, audio only
      Workload(MaxClients, 0, 0),           \* restart: sessions one after another
      BlankWorkload,
      MalformedWorkload,
      FlagWorkload }

\* ------------------------------------------------------- program constants
\* stopSession: this.waitForFinalResult(5000)
WaitBudgetMs == 5000
\* waitForFinalResult: setTimeout(resolve, 100)
PollIntervalMs == 100

ASRStates ==
    {"idle", "connecting", "ready", "recording", "processing", "completed", "error"}

ClientIds == 1..MaxClients

\* ------------------------------------------------------------ plain helpers
Last(s) == s[Len(s)]

Front(s, n) == IF Len(s) <= n THEN s ELSE SubSeq(s, 1, n)

MinOf(a, b) == IF a < b THEN a ELSE b

\* ASRResult {text, isPartial, error?}; error = NoError stands for an absent error
Result(t, p, e) == [text |-> t, isPartial |-> p, error |-> e]

\* error texts are sequences of their parts; a result without an error has none
NoError == <<>>

\* the "error" listener: `连接错误: ${event}`
TransportError == <<"transport">>

\* variant of ErrorText: the error code is left out
MessageOnly(code, msg) == <<"code", msg>>

\* handleResponse: `错误码 ${errorCode}: ${errorMessage}`
ErrorText(code, msg) == <<"code", code, msg>>

VARIABLES
    workload,          \* the workload of this run
    config,            \* ASRManager.config: autoSaveHistory; errorListener = an "error" subscriber is registered
    currentState,      \* ASRManager.currentState
    client,            \* ASRManager.client: 0 = null, else the id of the ASRClient
    sessionStartTime,  \* ASRManager.sessionStartTime: 0 = null, else the time of startSession
    partialResults,    \* ASRManager.partialResults
    finalResult,       \* ASRManager.finalResult: <<>> = null, else <<result>>
    history,           \* ASRManager.history
    clients,           \* the ASRClient objects created so far, by id
    nClients,          \* number of ASRClient objects created
    tasks,             \* bag of pending macrotask completions
    mq,                \* microtask queue
    callerTurn,        \* caller code is running
    nChunks,           \* audio chunks fed so far
    nMsgs,             \* inbound frames delivered so far
    nEntries,          \* history entries created so far (fresh ids)
    emitted,           \* events emitted by the latest step, in order
    last,              \* the latest step: which segment ran and how it ended
    rw                 \* the RewriteService and its rewrite() call

mgrVars == <<currentState, client, sessionStartTime, partialResults, finalResult, history>>

\* the variables of the speech recognition session
asrVars == <<workload, config, currentState, client, sessionStartTime, partialResults,
             finalResult, history, clients, nClients, tasks, mq, callerTurn, nChunks, nMsgs,
             nEntries, emitted, last>>

vars == <<workload, config, currentState, client, sessionStartTime, partialResults, finalResult,
          history, clients, nClients, tasks, mq, callerTurn, nChunks, nMsgs, nEntries,
          emitted, last, rw>>

\* ========================================================== RewriteService
\* Texts are sequences of characters, " " being white space.
\* variant of trim: the text is taken as it is
NoTrim(s) == s

\* String.prototype.trim(): drop the white space at both ends
RECURSIVE trim(_)
trim(s) ==
    IF s = <<>> THEN s
    ELSE IF Head(s) = " " THEN trim(Tail(s))
    ELSE IF s[Len(s)] = " " THEN trim(SubSeq(s, 1, Len(s) - 1))
    ELSE s

\* variant of ok: every status counts as a success
AnyStatus(status) == TRUE

\* Response.ok: the status is in the range 200-299
ok(status) == status >= 200 /\ status <= 299

\* RewriteResult {original, polished, success, error?}
RewriteResult(original, polished, success, error) ==
    [original |-> original, polished |-> polished, success |-> success, error |-> error]

\* A response body: kind "json" = {choices: [{message: {content}}]}, "nochoices"
\* = JSON without choices, "text" = the text of an error page; failed = reading
\* or parsing it throws
Body(kind, content, failed) == [kind |-> kind, content |-> content, failed |-> failed]

NoBody == Body("none", <<>>, FALSE)

\* `data.choices?.[0]?.message?.content?.trim()`: <<>> stands for undefined too
polishedOf(body) == IF body.kind = "json" THEN trim(body.content) ELSE <<>>

\* the service with its config.apiKey (<<>> = not configured) and one rewrite()
\* call: pc = where the call is, text = its argument, requests = the user
\* contents of the fetch() calls issued, status = the status of the response
\* (0 = none), body = the body read, result = <<>> or <<the result returned>>
RewriteState(pc, text, apiKey) ==
    [pc |-> pc, text |-> text, apiKey |-> apiKey, requests |-> <<>>, status |-> 0,
     body |-> NoBody, result |-> <<>>]

NoRewrite == RewriteState("none", <<>>, <<>>)

\* ============================================================== ASRClient
\* A client object: ws = this.ws is set; sock = the state of the WebSocket
\* object the client created ("failing": close() was called before the socket
\* opened, "errored": an error event was dispatched, the close event follows);
\* timers = number of live setInterval timers created by this client;
\* connectP = the promise returned by connect(); sent = frames handed to
\* the open transport, in order.
NewClient ==
    [ws |-> FALSE, sock |-> "none", connectionState |-> "disconnected",
     audioBuffer |-> <<>>, sendInterval |-> FALSE, timers |-> 0,
     connectP |-> "none", sent |-> <<>>]

isConnected(c) == c.connectionState = "connected"

stopAudioSender(c) ==
    IF c.sendInterval
    THEN [c EXCEPT !.sendInterval = FALSE, !.timers = @ - 1]
    ELSE c

startAudioSender(c) == [c EXCEPT !.sendInterval = TRUE, !.timers = @ + 1]

\* the synchronous part of connect() on a client that passes the phase guard
ClientConnect(c) ==
    [c EXCEPT !.connectionState = "connecting", !.ws = TRUE,
              !.sock = "connecting", !.connectP = "pending"]

\* variant of connect(): no test of the phase
ConnectAnyway(c) == [c |-> ClientConnect(c), err |-> "none"]

\* ASRClient.connect() up to the creation of the socket: rejected unless the
\* phase is disconnected; c = the client afterwards, err = the rejection
connect(c) ==
    IF c.connectionState # "disconnected"
    THEN [c |-> c, err |-> "invalid_state"]
    ELSE [c |-> ClientConnect(c), err |-> "none"]

\* WebSocket.close(): a socket that is still connecting fails, an open one closes
SockClose(s) ==
    CASE s = "connecting" -> "failing"
      [] s = "open" -> "closing"
      [] OTHER -> s

\* variant of close(): the queue is kept
CloseKeepsQueue(c) ==
    LET c1 == stopAudioSender(c)
        c2 == IF c1.ws THEN [c1 EXCEPT !.sock = SockClose(@), !.ws = FALSE] ELSE c1
    IN  [c2 EXCEPT !.connectionState = "disconnected"]

ClientClose(c) ==
    LET c1 == stopAudioSender(c)
        c2 == IF c1.ws THEN [c1 EXCEPT !.sock = SockClose(@), !.ws = FALSE] ELSE c1
    IN  [c2 EXCEPT !.connectionState = "disconnected", !.audioBuffer = <<>>]

\* variant of ClientSendAudio: the chunk is queued in every phase
QueueAlways(c, chunk) == [c EXCEPT !.audioBuffer = Append(@, chunk)]

\* ASRClient.sendAudio(): queue the chunk when connected, else drop it
ClientSendAudio(c, chunk) ==
    IF isConnected(c) THEN [c EXCEPT !.audioBuffer = Append(@, chunk)] ELSE c

\* mergeAudioBuffer(): the queued chunks in arrival order
mergeAudioBuffer(c) == c.audioBuffer

\* WebSocket.send(): transmitted only on an open socket
SockSend(c, frame) ==
    IF c.sock = "open" THEN [c EXCEPT !.sent = Append(@, frame)] ELSE c

AudioFrame(data, isLast) ==
    [mtype |-> "audio", flags |-> IF isLast THEN 2 ELSE 0, payload |-> data]

FullRequestFrame == [mtype |-> "full_request", flags |-> 0, payload |-> <<>>]

\* ------------------------------------------------------------------ events
Event(type, state) == [type |-> type, state |-> state]

\* variant of setStateEvents: the event is emitted on every assignment
AlwaysEvents(prev, state) == <<Event("state-change", state)>>

\* setState(): the events it emits when the state is set from prev to state
setStateEvents(prev, state) ==
    IF prev # state THEN <<Event("state-change", state)>> ELSE <<>>

\* EventEmitter.emit("error", ...) throws when no "error" listener is registered
errorEvents(state) ==
    IF config.errorListener THEN <<Event("error", state)>> ELSE <<>>

\* the error a catch block rethrows after emitEvent("error"): the emit's own
\* exception replaces it when no listener is registered
rethrown(err) == IF config.errorListener THEN err ELSE "unhandled"

\* ------------------------------------------------------------- bookkeeping
Step(op, err, res) == [op |-> op, err |-> err, res |-> res]

\* a microtask: k = the continuation, a = its argument, s = the session (the
\* id of its client) whose call it continues, err/res = the outcome (error or
\* result) it carries
Micro(k, a, s, err, res) == [k |-> k, a |-> a, s |-> s, err |-> err, res |-> res]

\* a pending macrotask completion of client c: k = "gzipInit" | "gzipAudio" |
\* "gunzip" | "poll"
Task(k, c, data, isLast, origin, elapsed, frame) ==
    [k |-> k, c |-> c, data |-> data, isLast |-> isLast, origin |-> origin,
     elapsed |-> elapsed, frame |-> frame]

AddTask(t) == tasks (+) SetToBag({t})

DelTask(t) == tasks (-) SetToBag({t})

Init ==
    /\ workload \in Workloads
    /\ config \in [autoSaveHistory : BOOLEAN, errorListener : BOOLEAN]
    /\ currentState = "idle"
    /\ client = 0
    /\ sessionStartTime = 0
    /\ partialResults = <<>>
    /\ finalResult = <<>>
    /\ history = <<>>
    /\ clients = [i \in ClientIds |-> NewClient]
    /\ nClients = 0
    /\ tasks = EmptyBag
    /\ mq = <<>>
    /\ callerTurn = FALSE
    /\ nChunks = 0
    /\ nMsgs = 0
    /\ nEntries = 0
    /\ emitted = <<>>
    /\ last = Step("init", "none", <<>>)
    /\ rw = NoRewrite

\* the workloads of the history properties: two sessions that receive
\* messages and send no audio; one session that sends audio
HistoryWorkloads == {Workload(MaxClients, MaxMsgs, 0), Workload(1, 0, TalkChunks)}

\* a manager constructed with autoSaveHistory enabled (the default) and an
\* "error" subscriber registered
HistoryInit ==
    /\ workload \in HistoryWorkloads
    /\ config = [autoSaveHistory |-> TRUE, errorListener |-> TRUE]
    /\ currentState = "idle"
    /\ client = 0
    /\ sessionStartTime = 0
    /\ partialResults = <<>>
    /\ finalResult = <<>>
    /\ history = <<>>
    /\ clients = [i \in ClientIds |-> NewClient]
    /\ nClients = 0
    /\ tasks = EmptyBag
    /\ mq = <<>>
    /\ callerTurn = FALSE
    /\ nChunks = 0
    /\ nMsgs = 0
    /\ nEntries = 0
    /\ emitted = <<>>
    /\ last = Step("init", "none", <<>>)
    /\ rw = NoRewrite

\* caller code may run now, and the microtask queue has room for its call
CallerMayCall == (callerTurn \/ mq = <<>>) /\ Len(mq) < MaxQueue

\* after a segment of caller code, or of manager code that ended by invoking
\* subscribers (sub), caller code may follow before the next microtask
Turn(q, sub) == q # <<>> /\ sub

\* ------------------------------------------------------- result bookkeeping
\* for handleTranscriptionResult: the event is emitted and nothing is recorded
EmitOnly(r) ==
    IF r.error # NoError
    THEN [pr |-> partialResults, fr |-> finalResult,
          ev |-> errorEvents(currentState), threw |-> ~config.errorListener]
    ELSE [pr |-> partialResults, fr |-> finalResult,
          ev |-> <<Event("result", currentState)>>, threw |-> FALSE]

\* handleTranscriptionResult(result): the new partialResults and finalResult,
\* the events emitted, and whether emit("error") threw
handleTranscriptionResult(r) ==
    IF r.error # NoError
    THEN [pr |-> partialResults, fr |-> finalResult,
          ev |-> errorEvents(currentState), threw |-> ~config.errorListener]
    ELSE IF r.isPartial
    THEN [pr |-> Append(partialResults, r), fr |-> finalResult,
          ev |-> <<Event("result", currentState)>>, threw |-> FALSE]
    ELSE [pr |-> partialResults, fr |-> <<r>>,
          ev |-> <<Event("result", currentState)>>, threw |-> FALSE]

\* ------------------------------------------------------------ inbound frames
\* An inbound frame: short = fewer than 4 bytes; mtype = "full" (1001), "error"
\* (1111) or "other"; flags = the 4-bit message flags; gz = compression is gzip;
\* body = what the payload holds:
\*   "empty"    no payload bytes
\*   "corrupt"  bytes that fail to decompress or to parse
\*   "noresult" JSON without a result object
\*   "text"     result.text = text
\*   "utts"     no result.text, utterances = [text]
\*   "blank0"   result.text = "", utterances = []
\*   "blank"    result.text = "", no utterances
\*   "message"  the message of an error frame
\* code = the error code of an error frame, as the text it is printed with
\* seq = the sequence field in front of the payload: present iff flags bit0
Frame(short, mtype, flags, gz, body, text) ==
    [short |-> short, mtype |-> mtype, flags |-> flags, gz |-> gz, body |-> body,
     text |-> text, code |-> "", seq |-> IF flags % 2 = 1 THEN <<1>> ELSE <<>>]

\* a ServerError frame: the error code, then the message
ErrorFrame(flags, gz, code, msg) ==
    [Frame(FALSE, "error", flags, gz, "message", msg) EXCEPT !.code = code]

NoFrame == Frame(FALSE, "none", 0, FALSE, "none", "")

InboundFrames ==
    { Frame(FALSE, "full", 1, TRUE, "text", "a"),
      Frame(FALSE, "full", 3, TRUE, "text", "b"),
      ErrorFrame(1, FALSE, "45000001", "bad") }

\* full server responses that carry no text, or carry it in the utterances only
BlankFrames ==
    { Frame(FALSE, "full", 3, TRUE, "blank0", ""),
      Frame(FALSE, "full", 3, TRUE, "blank", ""),
      Frame(FALSE, "full", 1, TRUE, "noresult", ""),
      Frame(FALSE, "full", 1, TRUE, "empty", ""),
      Frame(FALSE, "full", 3, FALSE, "utts", "c") }

\* frames shorter than 4 bytes, and frames whose payload fails to decompress
\* or to parse
MalformedFrames ==
    { Frame(TRUE, "full", 0, FALSE, "corrupt", ""),
      Frame(FALSE, "full", 1, TRUE, "corrupt", ""),
      Frame(FALSE, "full", 1, FALSE, "corrupt", ""),
      Frame(FALSE, "error", 0, TRUE, "corrupt", "") }

\* sequence numbers the server puts in front of a payload
SeqNumbers == {1, 2}

\* full server responses with every value of the flags; the text names the
\* flags the frame was sent with
FlagFrames ==
    { Frame(FALSE, "full", 0, TRUE, "text", "f0"),
      Frame(FALSE, "full", 2, TRUE, "text", "f2") }
    \cup { [Frame(FALSE, "full", 1, TRUE, "text", "f1") EXCEPT !.seq = <<n>>] :
                n \in SeqNumbers }
    \cup { [Frame(FALSE, "full", 3, FALSE, "text", "f3") EXCEPT !.seq = <<n>>] :
                n \in SeqNumbers }

\* the frames the server of workload w chooses from
FramesOf(w) ==
    IF w.frames = "blank" THEN BlankFrames
    ELSE IF w.frames = "malformed" THEN MalformedFrames
    ELSE IF w.frames = "flags" THEN FlagFrames
    ELSE InboundFrames

\* variant of isLastPackage: bit0 is taken for the last-package mark
HasSequence(f) == f.flags % 2 = 1

\* handleResponse: flags bit1 marks the last package
isLastPackage(f) == (f.flags \div 2) % 2 = 1

\* the bytes of a full response after the header, as the server lays them
\* out: the sequence field if any, the payload size, the payload
payload(f) == f.seq \o <<"size">> \o <<f.text>>

\* handleResponse: bit0 set -> payload.slice(4) skips the sequence field
skipSequence(f) == IF f.flags % 2 = 1 THEN Tail(payload(f)) ELSE payload(f)

\* handleResponse: payload.slice(4) after the payload size; what is left is
\* decoded as the text
decodedText(f) == Tail(skipSequence(f))[1]

\* handleResponse up to its first await: "done" (nothing more happens),
\* "gunzip" (awaits the decompression) or "sync" (decodes without awaiting)
ResponseStart(f) ==
    IF f.short THEN "done"
    ELSE IF f.mtype = "error" THEN (IF f.gz THEN "gunzip" ELSE "sync")
    ELSE IF f.mtype = "full"
         THEN (IF f.body = "empty" THEN "done" ELSE IF f.gz THEN "gunzip" ELSE "sync")
    ELSE "done"

\* handleResponse after the payload is available: the results handed to the
\* callback (none when decoding throws: the message listener only logs it)
ResponseResults(f) ==
    IF f.body = "corrupt" THEN <<>>
    ELSE IF f.mtype = "error" THEN <<Result("", TRUE, ErrorText(f.code, f.text))>>
    ELSE IF f.body \in {"text", "utts"}
         THEN <<Result(decodedText(f), ~isLastPackage(f), NoError)>>
    ELSE IF f.body = "blank0" THEN <<Result("", ~isLastPackage(f), NoError)>>
    ELSE <<>>

\* the callback invocations of one handleResponse, applied to the manager
Deliver(rs, op) ==
    IF rs = <<>>
    THEN /\ UNCHANGED <<partialResults, finalResult>>
         /\ emitted' = <<>>
         /\ last' = Step("internal", "none", <<>>)
    ELSE LET h == handleTranscriptionResult(rs[1])
         IN  /\ partialResults' = h.pr
             /\ finalResult' = h.fr
             /\ emitted' = h.ev
             /\ last' = Step(op, IF h.threw THEN "unhandled" ELSE "none", rs)

\* ------------------------------------------------- variants of the guards
\* Deliberately wrong versions of operators below; each is put in the place
\* of the operator named to show that the property about it can fail.
\* for CanStart: startSession() accepted in every state
StartAnywhere(state) == TRUE

\* for CanStop: stopSession() accepted in every state
StopAnywhere(state) == TRUE

\* for SendAudioState: every chunk starts recording
RecordAnywhere(state) == "recording"

\* for CancelState: cancelSession() leaves the state as it is
KeepState(state) == state

\* for CanStart: startSession() accepted in completed as well
StartWhenSettled(state) == state \in {"idle", "completed"}

\* for ShouldSave: every result of stopSession() is saved
SaveAny(r) == TRUE

\* for WsOpen: the transport reports an open socket as opened again
OpenRepeats(i) ==
    /\ mq = <<>>
    /\ clients[i].sock \in {"connecting", "open"}
    /\ clients' = [clients EXCEPT ![i].sock = "open",
                                  ![i].connectionState = "connected"]
    /\ tasks' = AddTask(Task("gzipInit", i, <<>>, FALSE, "open", 0, NoFrame))
    /\ callerTurn' = FALSE
    /\ emitted' = <<>>
    /\ last' = Step("internal", "none", <<>>)
    /\ UNCHANGED <<rw, workload, config, mgrVars, nClients, mq, nChunks, nMsgs, nEntries>>

\* for Elapse: the clock does not advance between two polls
ClockStuck(elapsed) == elapsed

\* ========================================================== ASRManager API
CanStart(state) == state = "idle"

\* startSession(): guard, then the synchronous part up to `await connect()`
StartSession ==
    /\ CallerMayCall
    /\ IF ~CanStart(currentState)
       THEN /\ last' = Step("startSession", "invalid_state", <<>>)
            /\ emitted' = <<>>
            /\ UNCHANGED <<mgrVars, clients, nClients>>
       ELSE /\ nClients < workload.clients
            /\ currentState' = "connecting"
            /\ emitted' = setStateEvents(currentState, "connecting")
            /\ sessionStartTime' = nClients + 1
            /\ partialResults' = <<>>
            /\ finalResult' = <<>>
            /\ nClients' = nClients + 1
            /\ client' = nClients + 1
            /\ clients' = [clients EXCEPT ![nClients + 1] = ClientConnect(NewClient)]
            /\ last' = Step("startSession", "none", <<>>)
            /\ UNCHANGED history
    /\ callerTurn' = Turn(mq, TRUE)
    /\ UNCHANGED <<rw, workload, config, tasks, mq, nChunks, nMsgs, nEntries>>

\* startSession() after `await this.client.connect()`
StartCont ==
    /\ mq # <<>> /\ Head(mq).k = "startCont"
    /\ IF Head(mq).a = "ok"
       THEN /\ currentState' = "ready"
            /\ emitted' = setStateEvents(currentState, "ready")
                          \o <<Event("connected", "ready")>>
            /\ last' = Step("startCont", "none", <<>>)
       ELSE /\ currentState' = "error"
            /\ emitted' = setStateEvents(currentState, "error") \o errorEvents("error")
            /\ last' = Step("startCont", rethrown("connect_failed"), <<>>)
    /\ mq' = Tail(mq)
    /\ callerTurn' = Turn(mq', TRUE)
    /\ UNCHANGED <<rw, workload, config, client, sessionStartTime, partialResults, finalResult,
                   history, clients, nClients, tasks, nChunks, nMsgs, nEntries>>

\* sendAudio(): a session in "ready" starts recording with the first chunk
SendAudioState(state) == IF state = "ready" THEN "recording" ELSE state

\* sendAudio(chunk); the chunks are numbered in call order
SendAudio ==
    /\ CallerMayCall
    /\ nChunks < workload.chunks
    /\ IF client = 0
       THEN /\ last' = Step("sendAudio", "not_started", <<>>)
            /\ emitted' = <<>>
            /\ UNCHANGED <<currentState, clients, nChunks>>
       ELSE /\ currentState' = SendAudioState(currentState)
            /\ emitted' = setStateEvents(currentState, currentState')
            /\ IF currentState' # "recording"
               THEN /\ last' = Step("sendAudio", "dropped", <<>>)
                    /\ UNCHANGED <<clients, nChunks>>
               ELSE /\ last' = Step("sendAudio", "none", <<>>)
                    /\ clients' = [clients EXCEPT
                           ![client] = ClientSendAudio(@, nChunks + 1)]
                    /\ nChunks' = nChunks + 1
    /\ callerTurn' = Turn(mq, TRUE)
    /\ UNCHANGED <<rw, workload, config, client, sessionStartTime, partialResults, finalResult,
                   history, nClients, tasks, mq, nMsgs, nEntries>>

CanStop(state) == state \in {"ready", "recording"}

\* stopSession(): guards, setState("processing"), then finish() up to its
\* first await: stopAudioSender(); not connected -> return; else merge the
\* queue and gzip it for the last packet
StopSession ==
    /\ CallerMayCall
    /\ IF client = 0 \/ ~CanStop(currentState)
       THEN /\ last' = Step("stopSession",
                            IF client = 0 THEN "not_started" ELSE "invalid_state", <<>>)
            /\ emitted' = <<>>
            /\ UNCHANGED <<currentState, clients, tasks, mq>>
       ELSE /\ currentState' = "processing"
            /\ emitted' = setStateEvents(currentState, "processing")
            /\ last' = Step("stopSession", "none", <<>>)
            /\ LET c == stopAudioSender(clients[client])
               IN  /\ clients' = [clients EXCEPT
                          ![client] = IF isConnected(c)
                                      THEN [c EXCEPT !.audioBuffer = <<>>]
                                      ELSE c]
                   /\ IF isConnected(c) /\ c.ws
                      THEN /\ tasks' = AddTask(Task("gzipAudio", client,
                                                    mergeAudioBuffer(c), TRUE, "finish",
                                                    0, NoFrame))
                           /\ mq' = mq
                      ELSE /\ mq' = Append(mq, Micro("stopWait", "", client, "none",
                                                     <<>>))
                           /\ tasks' = tasks
    /\ callerTurn' = Turn(mq', TRUE)
    /\ UNCHANGED <<rw, workload, config, client, sessionStartTime, partialResults, finalResult,
                   history, nClients, nChunks, nMsgs, nEntries>>

\* waitForFinalResult: `{ ...lastPartial, isPartial: false }`
PromoteFinal(r) == [r EXCEPT !.isPartial = FALSE]

\* one evaluation of the loop of waitForFinalResult, elapsed = Date.now() -
\* startTime: the microtask that resumes stopSession, or <<>> to sleep again
WaitStep(s, elapsed) ==
    IF finalResult # <<>>
    THEN <<Micro("stopRet", "", s, "none", finalResult)>>
    ELSE IF elapsed > WaitBudgetMs
    THEN IF partialResults # <<>>
         THEN <<Micro("stopRet", "", s, "none", <<PromoteFinal(Last(partialResults))>>)>>
         ELSE <<Micro("stopThrow", "", s, "timeout", <<>>)>>
    ELSE <<>>

PollTask(s, elapsed) == Task("poll", s, <<>>, FALSE, "stop", elapsed, NoFrame)

\* stopSession() after `await this.client.finish()`: enters waitForFinalResult
StopWait ==
    /\ mq # <<>> /\ Head(mq).k = "stopWait"
    /\ mq' = Tail(mq) \o WaitStep(Head(mq).s, 0)
    /\ tasks' = IF WaitStep(Head(mq).s, 0) = <<>>
                THEN AddTask(PollTask(Head(mq).s, 0))
                ELSE tasks
    /\ callerTurn' = FALSE
    /\ emitted' = <<>>
    /\ last' = Step("internal", "none", <<>>)
    /\ UNCHANGED <<rw, workload, config, mgrVars, clients, nClients, nChunks, nMsgs, nEntries>>

\* the clock reading after one more sleep of the poll loop
Elapse(elapsed) == MinOf(elapsed + ClockStepMs, WaitBudgetMs + ClockStepMs)

\* waitForFinalResult after `await setTimeout(100)`
PollWake(t) ==
    /\ mq = <<>>
    /\ t.k = "poll"
    /\ ClockStepMs >= PollIntervalMs
    /\ mq' = WaitStep(t.c, Elapse(t.elapsed))
    /\ tasks' = IF WaitStep(t.c, Elapse(t.elapsed)) = <<>>
                THEN DelTask(t) (+) SetToBag({PollTask(t.c, Elapse(t.elapsed))})
                ELSE DelTask(t)
    /\ callerTurn' = FALSE
    /\ emitted' = <<>>
    /\ last' = Step("internal", "none", <<>>)
    /\ UNCHANGED <<rw, workload, config, mgrVars, clients, nClients, nChunks, nMsgs, nEntries>>

\* ------------------------------------------------------------------ history
\* TranscriptionHistoryEntry {id, text, startTime}; endTime and duration are
\* clock readings that no decision of the code depends on
Entry(id, text, startTime) == [id |-> id, text |-> text, startTime |-> startTime]

\* stopSession: `this.config.autoSaveHistory && result.text`
ShouldSave(r) == config.autoSaveHistory /\ r.text # ""

\* variant: push instead of unshift, so that the slice keeps the oldest entries
KeepOldest(h, r) ==
    Front(h \o <<Entry(nEntries + 1, r.text, sessionStartTime)>>, MaxHistorySize)

\* addToHistory: unshift, then slice(0, maxHistorySize)
addToHistory(h, r) ==
    Front(<<Entry(nEntries + 1, r.text, sessionStartTime)>> \o h, MaxHistorySize)

\* addToHistory evaluates this.sessionStartTime!.getTime(): a TypeError on null
AddThrows == sessionStartTime = 0

\* cleanup() up to its await: with a client, close() it and suspend (the
\* continuation `next` clears the fields); without, clear sessionStartTime
CleanupSync(rest, next, after) ==
    IF client # 0
    THEN /\ clients' = [clients EXCEPT ![client] = ClientClose(@)]
         /\ sessionStartTime' = sessionStartTime
         /\ mq' = rest \o next
    ELSE /\ clients' = clients
         /\ sessionStartTime' = 0
         /\ mq' = rest \o after

\* stopSession() after waitForFinalResult returned: setState("completed"),
\* the history, `return result`; catch on a throw; finally cleanup()
StopRet ==
    /\ mq # <<>> /\ Head(mq).k = "stopRet"
    /\ LET r == Head(mq).res[1]
           throws == ShouldSave(r) /\ AddThrows
           err == IF throws THEN rethrown("type_error") ELSE "none"
           res == IF throws THEN <<>> ELSE <<r>>
       IN  /\ currentState' = IF throws THEN "error" ELSE "completed"
           /\ emitted' = setStateEvents(currentState, "completed")
                         \o (IF throws
                             THEN setStateEvents("completed", "error") \o errorEvents("error")
                             ELSE <<>>)
           /\ history' = IF ShouldSave(r) /\ ~throws THEN addToHistory(history, r)
                         ELSE history
           /\ nEntries' = IF ShouldSave(r) /\ ~throws THEN nEntries + 1 ELSE nEntries
           /\ last' = Step("stopRet", err, res)
           /\ CleanupSync(Tail(mq), <<Micro("cleanupCont", "stop", Head(mq).s, err, res)>>,
                          <<Micro("stopSettle", "", Head(mq).s, err, res)>>)
    /\ callerTurn' = FALSE
    /\ UNCHANGED <<rw, workload, config, client, partialResults, finalResult, nClients, tasks,
                   nChunks, nMsgs>>

\* stopSession() catch block after finish() or waitForFinalResult threw:
\* setState("error"), emit error, rethrow; finally cleanup()
StopThrow ==
    /\ mq # <<>> /\ Head(mq).k = "stopThrow"
    /\ LET err == rethrown(Head(mq).err)
       IN  /\ currentState' = "error"
           /\ emitted' = setStateEvents(currentState, "error") \o errorEvents("error")
           /\ last' = Step("stopThrow", err, <<>>)
           /\ CleanupSync(Tail(mq), <<Micro("cleanupCont", "stop", Head(mq).s, err, <<>>)>>,
                          <<Micro("stopSettle", "", Head(mq).s, err, <<>>)>>)
    /\ callerTurn' = FALSE
    /\ UNCHANGED <<rw, workload, config, client, partialResults, finalResult, history, nClients,
                   tasks, nChunks, nMsgs, nEntries>>

\* cleanup() after `await this.client.close()`: this.client = null;
\* this.sessionStartTime = null.  A stopSession awaiting it resumes afterwards.
CleanupCont ==
    /\ mq # <<>> /\ Head(mq).k = "cleanupCont"
    /\ client' = 0
    /\ sessionStartTime' = 0
    /\ mq' = Tail(mq) \o (IF Head(mq).a = "stop"
                          THEN <<Micro("stopSettle", "", Head(mq).s, Head(mq).err,
                                        Head(mq).res)>>
                          ELSE <<>>)
    /\ callerTurn' = FALSE
    /\ emitted' = <<>>
    /\ last' = Step("cleanupCont", "none", <<>>)
    /\ UNCHANGED <<rw, workload, config, currentState, partialResults, finalResult, history, clients,
                   nClients, tasks, nChunks, nMsgs, nEntries>>

\* stopSession() settles: its promise resolves with the result or rejects
StopSettle ==
    /\ mq # <<>> /\ Head(mq).k = "stopSettle"
    /\ mq' = Tail(mq)
    /\ callerTurn' = FALSE
    /\ emitted' = <<>>
    /\ last' = Step("stopSettle", Head(mq).err, Head(mq).res)
    /\ UNCHANGED <<rw, workload, config, mgrVars, clients, nClients, tasks, nChunks, nMsgs, nEntries>>

\* cancelSession: setState("idle"), whatever the state was
CancelState(state) == "idle"

\* cancelSession(): with a client, close() it and suspend; without, the whole
\* body runs at once: cleanup(); setState("idle")
CancelSession ==
    /\ CallerMayCall
    /\ IF client # 0
       THEN /\ clients' = [clients EXCEPT ![client] = ClientClose(@)]
            /\ mq' = Append(mq, Micro("cancelCont", "", nClients, "none", <<>>))
            /\ emitted' = <<>>
            /\ last' = Step("cancelSession", "none", <<>>)
            /\ UNCHANGED <<currentState, sessionStartTime>>
       ELSE /\ currentState' = CancelState(currentState)
            /\ emitted' = setStateEvents(currentState, currentState')
            /\ last' = Step("cancelDone", "none", <<>>)
            /\ CleanupSync(mq, <<>>, <<>>)
    /\ callerTurn' = Turn(mq', TRUE)
    /\ UNCHANGED <<rw, workload, config, client, partialResults, finalResult, history, nClients,
                   tasks, nChunks, nMsgs, nEntries>>

\* cancelSession() after `await this.client.close()`: cleanup() is called and
\* not awaited; setState("idle"); the promise resolves
CancelCont ==
    /\ mq # <<>> /\ Head(mq).k = "cancelCont"
    /\ currentState' = CancelState(currentState)
    /\ emitted' = setStateEvents(currentState, currentState')
    /\ last' = Step("cancelDone", "none", <<>>)
    /\ CleanupSync(Tail(mq), <<Micro("cleanupCont", "cancel", Head(mq).s, "none", <<>>)>>,
                   <<>>)
    /\ callerTurn' = Turn(mq', emitted' # <<>>)
    /\ UNCHANGED <<rw, workload, config, client, partialResults, finalResult, history, nClients,
                   tasks, nChunks, nMsgs, nEntries>>

\* ======================================================= transport events
\* "open" listener up to `await this.sendFullClientRequest()` (its gzip)
WsOpen(i) ==
    /\ mq = <<>>
    /\ clients[i].sock = "connecting"
    /\ clients' = [clients EXCEPT ![i].sock = "open",
                                  ![i].connectionState = "connected"]
    /\ tasks' = AddTask(Task("gzipInit", i, <<>>, FALSE, "open", 0, NoFrame))
    /\ callerTurn' = FALSE
    /\ emitted' = <<>>
    /\ last' = Step("internal", "none", <<>>)
    /\ UNCHANGED <<rw, workload, config, mgrVars, nClients, mq, nChunks, nMsgs, nEntries>>

\* sendFullClientRequest after gzip, then the rest of the "open" listener:
\* this.ws?.send(request); startAudioSender(); resolve()
GzipInitDone(t) ==
    /\ mq = <<>>
    /\ t.k = "gzipInit"
    /\ LET c  == clients[t.c]
           c1 == IF c.ws THEN SockSend(c, FullRequestFrame) ELSE c
           c2 == startAudioSender(c1)
       IN  IF c.connectP = "pending"
           THEN /\ clients' = [clients EXCEPT ![t.c] = [c2 EXCEPT !.connectP = "resolved"]]
                /\ mq' = <<Micro("startCont", "ok", t.c, "none", <<>>)>>
           ELSE /\ clients' = [clients EXCEPT ![t.c] = c2]
                /\ mq' = mq
    /\ tasks' = DelTask(t)
    /\ callerTurn' = FALSE
    /\ emitted' = <<>>
    /\ last' = Step("internal", "none", <<>>)
    /\ UNCHANGED <<rw, workload, config, mgrVars, nClients, nChunks, nMsgs, nEntries>>

\* "error" listener: callback({error}) first; then, while connecting, reject()
WsError(i) ==
    /\ mq = <<>>
    /\ clients[i].sock \in {"connecting", "open", "failing"}
    /\ LET h == handleTranscriptionResult(Result("", TRUE, TransportError))
           c == clients[i]
           rejects == ~h.threw /\ c.connectionState = "connecting"
       IN  /\ emitted' = h.ev
           /\ last' = Step("wsError", IF h.threw THEN "unhandled" ELSE "none", <<>>)
           /\ clients' = [clients EXCEPT
                  ![i].sock = "errored",
                  ![i].connectionState = IF rejects THEN "disconnected" ELSE @,
                  ![i].connectP = IF rejects /\ @ = "pending" THEN "rejected" ELSE @]
           /\ mq' = IF rejects /\ c.connectP = "pending"
                    THEN <<Micro("startCont", "fail", i, "none", <<>>)>>
                    ELSE mq
    /\ callerTurn' = FALSE
    /\ UNCHANGED <<rw, workload, config, mgrVars, nClients, tasks, nChunks, nMsgs, nEntries>>

\* "close" listener: connectionState = "disconnected"; stopAudioSender()
WsClose(i) ==
    /\ mq = <<>>
    /\ clients[i].sock \in {"open", "closing", "failing", "errored"}
    /\ clients' = [clients EXCEPT
           ![i] = stopAudioSender([@ EXCEPT !.sock = "closed",
                                            !.connectionState = "disconnected"])]
    /\ callerTurn' = FALSE
    /\ emitted' = <<>>
    /\ last' = Step("internal", "none", <<>>)
    /\ UNCHANGED <<rw, workload, config, mgrVars, nClients, tasks, mq, nChunks, nMsgs, nEntries>>

\* "message" listener: handleResponse(data) up to its first await
WsMessage(i, f) ==
    /\ mq = <<>>
    /\ clients[i].sock = "open"
    /\ nMsgs < workload.msgs
    /\ nMsgs' = nMsgs + 1
    /\ IF ResponseStart(f) = "gunzip"
       THEN /\ tasks' = AddTask(Task("gunzip", i, <<>>, FALSE, "message", 0, f))
            /\ emitted' = <<>>
            /\ last' = Step("internal", "none", <<>>)
            /\ UNCHANGED <<partialResults, finalResult>>
       ELSE /\ tasks' = tasks
            /\ Deliver(IF ResponseStart(f) = "sync" THEN ResponseResults(f) ELSE <<>>,
                       "result")
    /\ callerTurn' = FALSE
    /\ UNCHANGED <<rw, workload, config, currentState, client, sessionStartTime, history, clients,
                   nClients, mq, nChunks, nEntries>>

\* handleResponse after `await gunzip(payload)`
GunzipDone(t) ==
    /\ mq = <<>>
    /\ t.k = "gunzip"
    /\ tasks' = DelTask(t)
    /\ Deliver(ResponseResults(t.frame), "result")
    /\ callerTurn' = FALSE
    /\ UNCHANGED <<rw, workload, config, currentState, client, sessionStartTime, history, clients,
                   nClients, mq, nChunks, nMsgs, nEntries>>

\* ============================================================ audio flushing
\* one tick of the setInterval callback of startAudioSender, up to the gzip
\* inside sendAudioPacket; a tick that finds nothing to send changes nothing
TimerTick(i) ==
    /\ mq = <<>>
    /\ clients[i].timers > 0
    /\ LET c == clients[i]
       IN  IF Len(c.audioBuffer) = 0 \/ ~isConnected(c)
           THEN UNCHANGED vars
           ELSE /\ clients' = [clients EXCEPT ![i].audioBuffer = <<>>]
                /\ tasks' = IF c.ws
                            THEN AddTask(Task("gzipAudio", i, mergeAudioBuffer(c), FALSE,
                                              "timer", 0, NoFrame))
                            ELSE tasks
                /\ callerTurn' = FALSE
                /\ emitted' = <<>>
                /\ last' = Step("internal", "none", <<>>)
                /\ UNCHANGED <<rw, workload, config, mgrVars, nClients, mq, nChunks, nMsgs, nEntries>>

\* sendAudioPacket after `await gzip(audioData)`: this.ws.send(request) throws a
\* TypeError when close() has cleared this.ws in the meantime.  Called from
\* finish(), the outcome resumes stopSession; called from the timer, the
\* rejection has no handler.
GzipAudioDone(t) ==
    /\ mq = <<>>
    /\ t.k = "gzipAudio"
    /\ tasks' = DelTask(t)
    /\ LET c == clients[t.c]
       IN  IF c.ws
           THEN /\ clients' = [clients EXCEPT ![t.c] = SockSend(c, AudioFrame(t.data, t.isLast))]
                /\ mq' = IF t.origin = "finish"
                         THEN <<Micro("stopWait", "", t.c, "none", <<>>)>>
                         ELSE mq
                /\ last' = Step("internal", "none", <<>>)
           ELSE /\ clients' = clients
                /\ mq' = IF t.origin = "finish"
                         THEN <<Micro("stopThrow", "", t.c, "type_error", <<>>)>>
                         ELSE mq
                /\ last' = Step("internal", "type_error", <<>>)
    /\ callerTurn' = FALSE
    /\ emitted' = <<>>
    /\ UNCHANGED <<rw, workload, config, mgrVars, nClients, nChunks, nMsgs, nEntries>>

Next ==
    \/ StartSession
    \/ StartCont
    \/ SendAudio
    \/ StopSession
    \/ StopWait
    \/ StopRet
    \/ StopThrow
    \/ CleanupCont
    \/ StopSettle
    \/ CancelSession
    \/ CancelCont
    \/ \E i \in ClientIds : WsOpen(i)
    \/ \E i \in ClientIds : WsError(i)
    \/ \E i \in ClientIds : WsClose(i)
    \/ \E i \in ClientIds, f \in FramesOf(workload) : WsMessage(i, f)
    \/ \E i \in ClientIds : TimerTick(i)
    \/ \E t \in BagToSet(tasks) : GzipInitDone(t)
    \/ \E t \in BagToSet(tasks) : GzipAudioDone(t)
    \/ \E t \in BagToSet(tasks) : GunzipDone(t)
    \/ \E t \in BagToSet(tasks) : PollWake(t)

Spec == Init /\ [][Next]_vars

HistorySpec == HistoryInit /\ [][Next]_vars

\* ------------------------------------------------------- rewrite(text)
\* length of the texts given to rewrite()
MaxTextLen == 3

Chars == {" ", "a"}

Texts == UNION {[1..n -> Chars] : n \in 0..MaxTextLen}

ApiKeys == {<<>>, <<"k">>}

\* statuses the API answers with
Statuses == {200, 201, 404, 500}

\* bodies the API answers with
Bodies ==
    { Body("json", <<"b">>, FALSE), Body("json", <<" ", "b", " ">>, FALSE),
      Body("json", <<>>, FALSE), Body("json", <<" ">>, FALSE),
      Body("nochoices", <<>>, FALSE), Body("text", <<"e">>, FALSE),
      Body("text", <<>>, TRUE) }

\* a service constructed with or without an API key, about to be called with
\* some text; no speech recognition session is running
RewriteInit ==
    /\ rw \in {RewriteState("called", t, k) : t \in Texts, k \in ApiKeys}
    /\ workload = Workload(0, 0, 0)
    /\ config = [autoSaveHistory |-> TRUE, errorListener |-> TRUE]
    /\ currentState = "idle"
    /\ client = 0
    /\ sessionStartTime = 0
    /\ partialResults = <<>>
    /\ finalResult = <<>>
    /\ history = <<>>
    /\ clients = [i \in ClientIds |-> NewClient]
    /\ nClients = 0
    /\ tasks = EmptyBag
    /\ mq = <<>>
    /\ callerTurn = FALSE
    /\ nChunks = 0
    /\ nMsgs = 0
    /\ nEntries = 0
    /\ emitted = <<>>
    /\ last = Step("init", "none", <<>>)

\* rewrite(text) up to `await fetch(...)`: the two early returns, else the request
Rewrite ==
    /\ rw.pc = "called"
    /\ LET trimmedText == trim(rw.text)
       IN  rw' = IF trimmedText = <<>>
                 THEN [rw EXCEPT !.pc = "done",
                                 !.result = <<RewriteResult(rw.text, <<>>, TRUE, NoError)>>]
                 ELSE IF rw.apiKey = <<>>
                 THEN [rw EXCEPT !.pc = "done",
                                 !.result = <<RewriteResult(rw.text, rw.text, TRUE, NoError)>>]
                 ELSE [rw EXCEPT !.pc = "fetching",
                                 !.requests = Append(@, trimmedText)]
    /\ UNCHANGED asrVars

\* fetch() rejects (a transport exception): the catch block returns the failure
FetchRejects ==
    /\ rw.pc = "fetching"
    /\ rw' = [rw EXCEPT !.pc = "done",
                        !.result = <<RewriteResult(rw.text, rw.text, FALSE, <<"network">>)>>]
    /\ UNCHANGED asrVars

\* fetch() resolves with a response of some status; its body is read next
\* (response.text() when !response.ok, else response.json())
FetchResolves(status) ==
    /\ rw.pc = "fetching"
    /\ rw' = [rw EXCEPT !.pc = "reading", !.status = status]
    /\ UNCHANGED asrVars

\* the body has been read, or reading it has thrown (response.json() throws on
\* a body that is not JSON): the rest of rewrite() with its catch block
BodyRead(body) ==
    /\ rw.pc = "reading"
    /\ LET polished == polishedOf(body)
           result ==
               IF body.failed \/ (ok(rw.status) /\ body.kind = "text")
               THEN RewriteResult(rw.text, rw.text, FALSE, <<"read">>)
               ELSE IF ~ok(rw.status)
               THEN RewriteResult(rw.text, rw.text, FALSE, <<"status", rw.status>>)
               ELSE IF polished = <<>>
               THEN RewriteResult(rw.text, rw.text, FALSE, <<"empty">>)
               ELSE RewriteResult(rw.text, polished, TRUE, NoError)
       IN  rw' = [rw EXCEPT !.pc = "done", !.body = body, !.result = <<result>>]
    /\ UNCHANGED asrVars

RewriteNext ==
    \/ Rewrite
    \/ FetchRejects
    \/ \E status \in Statuses : FetchResolves(status)
    \/ \E body \in Bodies : BodyRead(body)

RewriteSpec == RewriteInit /\ [][RewriteNext]_vars

\* ================================================================ properties
\* A property about one call is stated on the step in which the call acts:
\* last' tells which segment the step ran and how it ended, the unprimed
\* variables are the state the segment found, the primed ones the state it left.

\* the step is a call of op
Calls(op) == last'.op = op

\* close() was called on the client: it holds no transport any more
Closed(c) == ~c.ws

\* ---------------------------------------------------------------------- C1
\* C1: startSession() in a state other than idle fails with an error, creates
\* no protocol client and changes nothing of the session.  The state becomes
\* idle again only when cancelSession() resolves, so every startSession()
\* after an accepted one, with no cancelSession() in between, finds a state
\* other than idle and fails -- also while the first call is still connecting.
C1_StartRejected ==
    [][ /\ (Calls("startSession") /\ currentState # "idle")
            => /\ last'.err = "invalid_state"
               /\ emitted' = <<>>
               /\ UNCHANGED <<mgrVars, clients, nClients, tasks, mq>>
        /\ (currentState # "idle" /\ currentState' = "idle") => Calls("cancelDone")
      ]_vars

\* a second startSession() was rejected while the first is still connecting
C1_Witness ==
    /\ last.op = "startSession" /\ last.err = "invalid_state"
    /\ currentState = "connecting"
    /\ nClients = 1

\* ---------------------------------------------------------------------- C2
\* C2: when startSession() succeeds the state is ready; sendAudio() in ready
\* sets the state to recording and hands the chunk to the protocol client;
\* sendAudio() in recording hands the chunk over and leaves the state recording.
C2_ReadyThenRecording ==
    [][ /\ (Calls("startCont") /\ last'.err = "none") => currentState' = "ready"
        /\ (Calls("sendAudio") /\ currentState \in {"ready", "recording"})
            => /\ last'.err = "none"
               /\ currentState' = "recording"
               /\ client # 0
               /\ nChunks' = nChunks + 1
               /\ clients' = [clients EXCEPT
                      ![client] = ClientSendAudio(@, nChunks + 1)]
      ]_vars

\* ---------------------------------------------------------------------- C3
\* C3: when the poll of stopSession() finds a final result recorded, the call
\* sets the state to completed and returns exactly that result; and every
\* result a stopSession() returns has isPartial = false.
C3_ReturnsFinal ==
    [][ /\ (Calls("stopRet") /\ finalResult # <<>>)
            => /\ currentState' = "completed"
               /\ last'.err = "none"
               /\ last'.res = finalResult
        /\ (Calls("stopSettle") /\ Head(mq).err = "none")
            => /\ last'.res = Head(mq).res
               /\ Len(last'.res) = 1
               /\ ~last'.res[1].isPartial
      ]_vars

\* ---------------------------------------------------------------------- C4
\* C4: when the wait budget of stopSession() elapses with no final result but
\* with partial results recorded, the call does not fail: it sets the state to
\* completed and returns the latest partial result with isPartial = false.
C4_PromotesPartial ==
    [][ (Calls("stopRet") /\ finalResult = <<>>)
            => /\ partialResults # <<>>
               /\ currentState' = "completed"
               /\ last'.err = "none"
               /\ Len(last'.res) = 1
               /\ last'.res[1].text = Last(partialResults).text
               /\ ~last'.res[1].isPartial
      ]_vars

\* ---------------------------------------------------------------------- C5
\* C5: when the wait budget of stopSession() elapses with neither a final nor a
\* partial result recorded, the call fails with the timeout error, the state
\* becomes error, an error event is emitted and the history is unchanged.
C5_TimeoutFails ==
    [][ (Calls("stopThrow") /\ Head(mq).err = "timeout")
            => /\ last'.err = "timeout"
               /\ currentState' = "error"
               /\ \E n \in 1..Len(emitted') : emitted'[n].type = "error"
               /\ history' = history
      ]_vars

C7_Released ==
    [][ /\ Calls("stopSettle")
            => /\ client' = 0 /\ sessionStartTime' = 0
               /\ Closed(clients'[Head(mq).s])
        /\ (Calls("cleanupCont") /\ Head(mq).a = "cancel")
            => /\ client' = 0 /\ sessionStartTime' = 0
               /\ Head(mq).s > 0 => Closed(clients'[Head(mq).s])
        /\ (Calls("cancelDone") /\ client = 0)
            => /\ client' = 0 /\ sessionStartTime' = 0
               /\ nClients > 0 => Closed(clients'[nClients])
      ]_vars

\* ---------------------------------------------------------------------- C8
\* C8: when cancelSession() resolves, partialResults is empty and finalResult
\* is absent.
C8_DiscardsResults ==
    [][ Calls("cancelDone") => partialResults' = <<>> /\ finalResult' = <<>> ]_vars

\* ---------------------------------------------------------------------- C9
\* C9: stopSession() in a state other than ready and recording fails with an
\* error; a stopSession() that fails its guards calls neither finish() nor
\* close() on the client and leaves state, results and history as they were.
C9_StopRejected ==
    [][ /\ (Calls("stopSession") /\ currentState \notin {"ready", "recording"})
            => last'.err \in {"not_started", "invalid_state"}
        /\ (Calls("stopSession") /\ last'.err # "none")
            => /\ emitted' = <<>>
               /\ UNCHANGED <<mgrVars, clients, tasks, mq>>
      ]_vars

\* a second stopSession() was rejected while the first is waiting for results
C9_Witness ==
    /\ last.op = "stopSession" /\ last.err = "invalid_state"
    /\ currentState = "processing"
    /\ client # 0 /\ ~Closed(clients[client])

\* --------------------------------------------------------------------- C10
\* C10: sendAudio() in a state other than ready and recording hands nothing to
\* the client and leaves the state as it was: without a client it fails with
\* an error, with a client the chunk is dropped and the call succeeds.
C10_AudioDropped ==
    [][ (Calls("sendAudio") /\ currentState \notin {"ready", "recording"})
            => /\ last'.err = (IF client = 0 THEN "not_started" ELSE "dropped")
               /\ emitted' = <<>>
               /\ UNCHANGED <<mgrVars, clients, tasks, mq, nChunks>>
      ]_vars

\* a chunk was dropped while stopSession() is waiting for results
C10_Witness ==
    /\ last.op = "sendAudio" /\ last.err = "dropped"
    /\ currentState = "processing"
    /\ client # 0

\* --------------------------------------------------------------------- C11
\* C11: a startSession() called in idle sets the state to connecting, emits
\* state-change(connecting) and creates exactly one new client; when its
\* connect() has succeeded, the call sets the state to ready and emits
\* state-change(ready) and then connected.
C11_StartToReady ==
    [][ /\ (Calls("startSession") /\ currentState = "idle")
            => /\ last'.err = "none"
               /\ currentState' = "connecting"
               /\ emitted' = <<Event("state-change", "connecting")>>
               /\ nClients' = nClients + 1
               /\ client' = nClients'
        /\ (Calls("startCont") /\ mq # <<>> /\ Head(mq).a = "ok")
            => /\ last'.err = "none"
               /\ currentState' = "ready"
               /\ emitted' = <<Event("state-change", "ready"), Event("connected", "ready")>>
               /\ nClients' = nClients
      ]_vars

\* --------------------------------------------------------------------- C12
\* C12: a transport error on a socket that has not opened yet rejects
\* connect() and returns the client to disconnected; the startSession() that
\* awaits it then fails with the connection error, the state is error and an
\* error event has been emitted - with or without an "error" subscriber.
C12_ConnectErrorFails ==
    [][ /\ \A i \in ClientIds :
            (Calls("wsError") /\ clients[i].sock = "connecting"
                              /\ clients'[i].sock = "errored")
                => /\ clients'[i].connectionState = "disconnected"
                   /\ clients'[i].connectP = "rejected"
                   /\ mq' = <<Micro("startCont", "fail", i, "none", <<>>)>>
        /\ (Calls("startCont") /\ mq # <<>> /\ Head(mq).a = "fail")
            => /\ last'.err = "connect_failed"
               /\ currentState' = "error"
               /\ \E n \in 1..Len(emitted') : emitted'[n].type = "error"
      ]_vars

C14_SavedOnStop ==
    [][ IF /\ Calls("stopRet") /\ mq # <<>> /\ last'.err = "none"
           /\ config.autoSaveHistory
           /\ last'.res[1].text # ""
        THEN /\ history' = Front(<<history'[1]>> \o history, MaxHistorySize)
             /\ history'[1].text = last'.res[1].text
             /\ history'[1] \notin {history[k] : k \in 1..Len(history)}
        ELSE history' = history
      ]_vars

\* a stopSession() has returned a result whose text is now the first entry
C14_Witness ==
    /\ last.op = "stopSettle" /\ last.err = "none"
    /\ history # <<>>
    /\ history[1].text = last.res[1].text

\* a stopSession() has returned a result with an empty text, nothing was saved
C14_WitnessEmpty ==
    /\ last.op = "stopSettle" /\ last.err = "none"
    /\ config.autoSaveHistory
    /\ last.res[1].text = ""
    /\ history = <<>>

\* --------------------------------------------------------------------- C15
\* C15: the state-change events of a step trace the values the state takes in
\* it: each carries a state different from the one before it, the last one
\* carries the state the step ends in, and a step that leaves the state at its
\* value (for example cancelSession() in idle) emits no state-change event.
C15_OneEventPerChange ==
    [][ LET sc == SelectSeq(emitted', LAMBDA e : e.type = "state-change")
            chain == <<currentState>> \o [k \in 1..Len(sc) |-> sc[k].state]
        IN  /\ \A k \in 1..Len(sc) : chain[k] # chain[k + 1]
            /\ chain[Len(chain)] = currentState'
      ]_vars

\* cancelSession() has resolved in idle without a state-change event
C15_Witness ==
    /\ last.op = "cancelDone"
    /\ currentState = "idle"
    /\ emitted = <<>>

\* --------------------------------------------------------------------- C16
\* C16 (as stated): startSession() called in completed starts a new session:
\* the state becomes connecting.
C16_CompletedRestarts ==
    [][ (Calls("startSession") /\ currentState = "completed")
            => currentState' = "connecting"
      ]_vars

\* C16 (amended): startSession() called in completed is rejected with the
\* invalid-state error; the state stays completed, no client is created and
\* nothing is emitted.  A new session starts only from idle, that is after
\* cancelSession().
C16_CompletedRejects ==
    [][ (Calls("startSession") /\ currentState = "completed")
            => /\ last'.err = "invalid_state"
               /\ emitted' = <<>>
               /\ UNCHANGED <<mgrVars, clients, nClients>>
      ]_vars

\* a startSession() was rejected in completed although a further session was
\* still to come
C16_Witness ==
    /\ last.op = "startSession" /\ last.err = "invalid_state"
    /\ currentState = "completed"
    /\ nClients < workload.clients

\* --------------------------------------------------------------------- C17
\* C17: finish() (the accepted stopSession() calls it) on a connected client
\* empties the queue and sends exactly one audio frame with the last-packet
\* flag (0010) whose payload is the queued audio in arrival order (empty when
\* the queue was empty); finish() on a client that is not connected sends no
\* frame.  The frame is handed to the socket (which transmits it if it is
\* open) when the compression of its payload is done.
C17_FinishSendsLast ==
    [][ /\ (Calls("stopSession") /\ last'.err = "none")
            => LET c == clients[client]
                   t == Task("gzipAudio", client, c.audioBuffer, TRUE, "finish", 0, NoFrame)
               IN  /\ clients'[client].sent = c.sent
                   /\ IF isConnected(c)
                      THEN /\ clients'[client].audioBuffer = <<>>
                           /\ tasks' = tasks (+) SetToBag({t})
                      ELSE tasks' = tasks
        /\ \A t \in BagToSet(tasks) :
            (t.k = "gzipAudio" /\ t.origin = "finish" /\ tasks' = DelTask(t))
                => /\ t.isLast
                   /\ AudioFrame(t.data, t.isLast).flags = 2
                   /\ last'.err = "none"
                   /\ clients' = [clients EXCEPT
                          ![t.c] = SockSend(@, AudioFrame(t.data, t.isLast))]
      ]_vars

\* --------------------------------------------------------------------- C18
\* C18: ASRClient.sendAudio(chunk) (every sendAudio() the manager accepts calls
\* it, and the call returns without an error) changes nothing on a client that
\* is not connected - queue, phase, transport and frames sent stay as they
\* were - and on a connected client appends the chunk at the end of the queue
\* and changes nothing else; it starts no compression and sends no frame.
C18_ClientQueues ==
    [][ (Calls("sendAudio") /\ last'.err = "none")
            => LET c == clients[client]
               IN  /\ client # 0
                   /\ tasks' = tasks
                   /\ clients' = [clients EXCEPT ![client] =
                          IF c.connectionState = "connected"
                          THEN [c EXCEPT !.audioBuffer = c.audioBuffer \o <<nChunks'>>]
                          ELSE c]
      ]_vars

\* a chunk was handed to a client whose connection was lost, and was dropped
C18_Witness ==
    /\ last.op = "sendAudio" /\ last.err = "none"
    /\ client # 0
    /\ clients[client].connectionState = "disconnected"
    /\ clients[client].audioBuffer = <<>>
    /\ nChunks > 0

\* a second chunk was queued behind the first on a connected client
C18_WitnessQueued ==
    /\ last.op = "sendAudio" /\ last.err = "none"
    /\ client # 0
    /\ clients[client].connectionState = "connected"
    /\ clients[client].audioBuffer = <<1, 2>>

HasContent(f) == f.body \in {"text", "utts"} /\ f.text # ""

\* C20: for an inbound ServerFullResponse the callback is invoked only if the
\* frame carries a non-empty text or a non-empty utterance list; an empty
\* payload, a payload without a result object and a result with an empty text
\* and an empty or absent utterance list invoke no callback, so that the
\* manager records nothing and emits nothing.
C20_CallbackNeedsContent ==
    [][ LET Handled(f) == /\ last'.op = "result" => HasContent(f)
                          /\ ~HasContent(f)
                                => /\ last'.op = "internal"
                                   /\ emitted' = <<>>
                                   /\ UNCHANGED <<partialResults, finalResult>>
        IN  /\ \A i \in ClientIds, f \in FramesOf(workload) :
                (f.mtype = "full" /\ ResponseStart(f) # "gunzip" /\ WsMessage(i, f))
                    => Handled(f)
            /\ \A t \in BagToSet(tasks) :
                (t.k = "gunzip" /\ t.frame.mtype = "full" /\ GunzipDone(t))
                    => Handled(t.frame)
      ]_vars

\* --------------------------------------------------------------------- C21
\* the text is empty or consists of white space only
IsBlank(s) == \A k \in 1..Len(s) : s[k] = " "

\* p is s without the white space at its ends
IsTrimOf(p, s) ==
    \E i \in 1..(Len(s) + 1), j \in 0..Len(s) :
        /\ p = SubSeq(s, i, j)
        /\ IsBlank(SubSeq(s, 1, i - 1)) /\ IsBlank(SubSeq(s, j + 1, Len(s)))
        /\ (p # <<>> => p[1] # " " /\ p[Len(p)] # " ")

\* C21: every rewrite() call that issued its request ends by returning a
\* result.  The result has success = true only when the response status is 2xx
\* and the completion is not empty, and polished is then the completion text
\* (without the white space around it); on a status outside 2xx, on an empty
\* or absent completion and on an exception of the transport it has success =
\* false, an error message and polished equal to the text passed in.
C21_NeverThrows ==
    (rw.pc = "done" /\ rw.requests # <<>>)
        => /\ Len(rw.result) = 1
           /\ LET r == rw.result[1]
                  is2xx == rw.status \in 200..299
                  emptyCompletion == rw.body.kind # "json" \/ rw.body.content = <<>>
                  exception == rw.status = 0 \/ rw.body.failed
              IN  /\ r.original = rw.text
                  /\ r.success
                        => /\ is2xx /\ ~emptyCompletion /\ ~exception
                           /\ r.error = NoError
                           /\ r.polished # <<>>
                           /\ IsTrimOf(r.polished, rw.body.content)
                  /\ (~is2xx \/ emptyCompletion \/ exception)
                        => /\ ~r.success
                           /\ r.error # NoError
                           /\ r.polished = rw.text

\* a 2xx response with a completion was returned as the polished text
C21_Witness ==
    /\ rw.pc = "done" /\ rw.status = 201
    /\ rw.body.content = <<" ", "b", " ">>
    /\ rw.result # <<>> /\ rw.result[1].success /\ rw.result[1].polished = <<"b">>

\* a non-2xx response made the call return the text passed in, with an error
C21_WitnessFailure ==
    /\ rw.pc = "done" /\ rw.status = 404
    /\ rw.body.kind = "json" /\ rw.body.content = <<"b">>
    /\ rw.result # <<>> /\ ~rw.result[1].success /\ rw.result[1].polished = rw.text

\* --------------------------------------------------------------------- C22
\* C22: rewrite(text) with an empty or white-space-only text issues no request
\* and returns success = true with polished = ""; with another text and no API
\* key it issues no request and returns success = true with polished = text.
\* The blank check comes first: a blank text gives polished = "" also when the
\* API key is missing.
C22_ShortCircuits ==
    /\ (IsBlank(rw.text) \/ rw.apiKey = <<>>)
          => rw.requests = <<>> /\ rw.pc \in {"none", "called", "done"}
    /\ (rw.pc = "done" /\ IsBlank(rw.text))
          => rw.result = <<RewriteResult(rw.text, <<>>, TRUE, NoError)>>
    /\ (rw.pc = "done" /\ ~IsBlank(rw.text) /\ rw.apiKey = <<>>)
          => rw.result = <<RewriteResult(rw.text, rw.text, TRUE, NoError)>>

\* a white-space-only text was answered with "" although the API key is missing
C22_Witness ==
    /\ rw.pc = "done"
    /\ rw.text = <<" ", " ">> /\ rw.apiKey = <<>>
    /\ rw.result = <<RewriteResult(rw.text, <<>>, TRUE, NoError)>>
    /\ rw.requests = <<>>

\* a text was returned as it is because the API key is missing
C22_WitnessNoKey ==
    /\ rw.pc = "done"
    /\ rw.text = <<" ", "a">> /\ rw.apiKey = <<>>
    /\ rw.result = <<RewriteResult(rw.text, rw.text, TRUE, NoError)>>
    /\ rw.requests = <<>>

\* --------------------------------------------------------------------- C23
\* C23: the state is idle only before the first session and after a
\* cancelSession() has resolved.  From then until the next startSession() call
\* every step leaves the state idle and the history unchanged and emits no
\* state-change, connected or error event - also the steps that continue a
\* startSession() or stopSession() that was in flight when cancelSession() was
\* called.
C23_CancelIsFinal ==
    [][ (currentState = "idle" /\ ~Calls("startSession"))
            => /\ currentState' = "idle"
               /\ history' = history
               /\ \A n \in 1..Len(emitted') :
                      emitted'[n].type \notin {"state-change", "connected", "error"}
      ]_vars

\* --------------------------------------------------------------------- C24
\* C24: the steps that continue a stopSession() or a cancelSession() of
\* session s (the part of stopSession() after the wait, and cleanup()) close
\* and discard no client but the one session s created: every other client
\* keeps its transport, and stays the manager's client if it was.
C24_OwnClientOnly ==
    [][ (mq # <<>> /\ last'.op \in {"stopRet", "stopThrow", "cleanupCont"})
            => \A i \in ClientIds \ {Head(mq).s} :
                   /\ clients'[i].ws = clients[i].ws
                   /\ clients'[i].connectionState = clients[i].connectionState
                   /\ client = i => client' = i
      ]_vars

\* --------------------------------------------------------------------- C25
\* C25: on every connection the audio frame with the last-packet flag is the
\* final audio frame: no audio frame without the flag is sent after it.
C25_LastIsFinal ==
    \A i \in ClientIds :
        \A j, k \in 1..Len(clients[i].sent) :
            (j < k /\ clients[i].sent[j].mtype = "audio" /\ clients[i].sent[j].flags = 2)
                => ~(clients[i].sent[k].mtype = "audio" /\ clients[i].sent[k].flags # 2)

\* --------------------------------------------------------------------- C26
\* the chunks of the audio frames sent on a connection, in the order sent
RECURSIVE SentAudio(_)
SentAudio(frames) ==
    IF frames = <<>> THEN <<>>
    ELSE (IF Head(frames).mtype = "audio" THEN Head(frames).payload ELSE <<>>)
         \o SentAudio(Tail(frames))

\* C26: the chunks of the audio frames, in the order the frames are handed to
\* the transport, are in the order in which sendAudio() accepted them (the
\* chunks are numbered in call order): no batch overtakes an earlier one.
C26_AudioInOrder ==
    \A i \in ClientIds :
        LET a == SentAudio(clients[i].sent)
        IN  \A j, k \in 1..Len(a) : j < k => a[j] < a[k]

\* --------------------------------------------------------------------- C27
\* the ClientFullRequest frames among the frames sent
FullRequests(frames) == SelectSeq(frames, LAMBDA fr : fr.mtype = "full_request")

\* C27: on every connection, the step in which connect() resolves and the step
\* that starts the flush timer hand the ClientFullRequest frame to the
\* transport the client holds (an open socket transmits it), and no more than
\* one such frame is ever sent; every audio frame sent on the connection comes
\* after the ClientFullRequest.
C27_HandshakeFirst ==
    [][ \A i \in ClientIds :
            LET c == clients[i]
                d == clients'[i]
            IN  /\ ((c.connectP = "pending" /\ d.connectP = "resolved")
                        \/ d.timers > c.timers)
                    => /\ c.ws
                       /\ c.sock = "open" => d.sent = Append(c.sent, FullRequestFrame)
                /\ Len(FullRequests(d.sent)) <= 1
                /\ d.sent # <<>> => d.sent[1].mtype = "full_request"
      ]_vars

\* --------------------------------------------------------------------- C28
\* C28: a timer tick that takes a batch does so with phase Connected and a
\* non-empty queue, takes the queued chunks in arrival order and empties the
\* queue in the same step; every batch taken is handed to the transport as
\* exactly one ClientAudioOnly frame with flags NoSequence (0) carrying that
\* batch; and no accepted chunk occurs twice in the frames sent.
C28_TickSendsBatch ==
    [][ /\ \A t \in BagToSet(tasks') :
               (t.k = "gzipAudio" /\ t.origin = "timer" /\ tasks' = AddTask(t))
                   => /\ isConnected(clients[t.c])
                      /\ clients[t.c].audioBuffer # <<>>
                      /\ t.data = clients[t.c].audioBuffer
                      /\ ~t.isLast
                      /\ clients'[t.c].audioBuffer = <<>>
        /\ \A t \in BagToSet(tasks) :
               (t.k = "gzipAudio" /\ t.origin = "timer" /\ tasks' = DelTask(t))
                   => /\ clients' = [clients EXCEPT
                                        ![t.c] = SockSend(@, AudioFrame(t.data, FALSE))]
                      /\ AudioFrame(t.data, FALSE).flags = 0
                      /\ last'.err = "none"
        /\ \A i \in ClientIds :
               LET a == SentAudio(clients'[i].sent)
               IN  \A j, k \in 1..Len(a) : j # k => a[j] # a[k]
      ]_vars

C30_TimerOnlyConnected ==
    \A i \in ClientIds : clients[i].timers > 0 => isConnected(clients[i])

\* --------------------------------------------------------------------- C31
\* C31: whenever the session state is ready or recording the manager holds a
\* protocol client (so sendAudio() and stopSession() cannot fail with
\* "session not started" there).
C31_ClientWhileActive ==
    currentState \in {"ready", "recording"} => client # 0

\* --------------------------------------------------------------------- C32
\* C32: within one session finalResult is set at most once: once a final
\* result is recorded, no step other than the next startSession() stores a
\* final result again or changes the recorded one.
C32_FinalSetOnce ==
    [][ (finalResult # <<>> /\ ~Calls("startSession"))
            => /\ finalResult' = finalResult
               /\ ~(/\ last'.op = "result"
                    /\ last'.res # <<>>
                    /\ last'.res[1].error = NoError
                    /\ ~last'.res[1].isPartial)
      ]_vars

\* --------------------------------------------------------------------- C33
\* C33: between one startSession() and the next, partialResults only grows by
\* appending at its end; every non-error result with isPartial = true that is
\* delivered is appended, and nothing else is; and the delivery that appends
\* comes from the connection of the current session (the client created by the
\* latest startSession()), never from a result that was still being decoded on
\* an earlier session's connection.
C33_OwnPartialsOnly ==
    [][ ~Calls("startSession")
            => /\ \/ partialResults' = partialResults
                  \/ /\ last'.op = "result"
                     /\ last'.res # <<>>
                     /\ last'.res[1].error = NoError
                     /\ last'.res[1].isPartial
                     /\ partialResults' = Append(partialResults, last'.res[1])
               /\ (/\ last'.op = "result"
                   /\ last'.res # <<>>
                   /\ last'.res[1].error = NoError
                   /\ last'.res[1].isPartial)
                      => partialResults' = Append(partialResults, last'.res[1])
               /\ \A t \in BagToSet(tasks) :
                      (/\ t.k = "gunzip"
                       /\ tasks' = DelTask(t)
                       /\ partialResults' # partialResults)
                          => t.c = nClients
      ]_vars

\* --------------------------------------------------------------------- C34
\* C34 as stated: every inbound result produces exactly one event (with an
\* "error" subscriber registered: an error event if the result carries an
\* error, otherwise a result event), and the event is emitted before the
\* result is recorded.  The subscribers run inside the emit, which is the last
\* statement of the step, so the bookkeeping they find is the one the step
\* leaves: it would still have to be the one the step found.
C34_EventBeforeRecord ==
    [][ (last'.op = "result" /\ last'.res # <<>> /\ config.errorListener)
            => /\ Len(emitted') = 1
               /\ emitted'[1].type = IF last'.res[1].error # NoError
                                     THEN "error" ELSE "result"
               /\ emitted'[1].type = "result"
                      => /\ partialResults' = partialResults
                         /\ finalResult' = finalResult
      ]_vars

\* C34: every inbound result without an error is recorded first and then
\* produces exactly one result event: when the subscribers of the event run, a
\* partial result is already the last element of partialResults and a final
\* one is already finalResult.  A result with an error is not recorded and
\* produces exactly one error event (none reaches a subscriber, and the emit
\* throws, when no "error" subscriber is registered).
C34_RecordBeforeEvent ==
    [][ (last'.op = "result" /\ last'.res # <<>>)
            => LET r == last'.res[1]
               IN  IF r.error # NoError
                   THEN /\ partialResults' = partialResults
                        /\ finalResult' = finalResult
                        /\ IF config.errorListener
                           THEN Len(emitted') = 1 /\ emitted'[1].type = "error"
                           ELSE emitted' = <<>> /\ last'.err = "unhandled"
                   ELSE /\ Len(emitted') = 1
                        /\ emitted'[1].type = "result"
                        /\ IF r.isPartial
                           THEN /\ partialResults' = Append(partialResults, r)
                                /\ finalResult' = finalResult
                           ELSE /\ finalResult' = <<r>>
                                /\ partialResults' = partialResults
      ]_vars

\* the subscribers of a result event find the partial result recorded
C34_Witness ==
    /\ last.op = "result"
    /\ last.res # <<>>
    /\ last.res[1].isPartial
    /\ last.res[1].error = NoError
    /\ Len(emitted) = 1
    /\ emitted[1].type = "result"
    /\ partialResults # <<>>
    /\ Last(partialResults) = last.res[1]

\* --------------------------------------------------------------------- C35
\* a manager whose caller runs one session, feeds audio and receives results
LiveWorkloads == {Workload(1, MaxMsgs, TalkChunks)}

LiveInit ==
    /\ workload \in LiveWorkloads
    /\ config \in [autoSaveHistory : BOOLEAN, errorListener : BOOLEAN]
    /\ currentState = "idle"
    /\ client = 0
    /\ sessionStartTime = 0
    /\ partialResults = <<>>
    /\ finalResult = <<>>
    /\ history = <<>>
    /\ clients = [i \in ClientIds |-> NewClient]
    /\ nClients = 0
    /\ tasks = EmptyBag
    /\ mq = <<>>
    /\ callerTurn = FALSE
    /\ nChunks = 0
    /\ nMsgs = 0
    /\ nEntries = 0
    /\ emitted = <<>>
    /\ last = Step("init", "none", <<>>)
    /\ rw = NoRewrite

\* the event loop runs every queued microtask (the continuation of an await
\* that has settled) and every completion that is due: the compressions and
\* decompressions of zlib and the setTimeout of the poll loop
Microtasks ==
    \/ StartCont
    \/ StopWait
    \/ StopRet
    \/ StopThrow
    \/ CleanupCont
    \/ StopSettle
    \/ CancelCont

Completions ==
    \/ \E t \in BagToSet(tasks) : GzipInitDone(t)
    \/ \E t \in BagToSet(tasks) : GzipAudioDone(t)
    \/ \E t \in BagToSet(tasks) : GunzipDone(t)
    \/ \E t \in BagToSet(tasks) : PollWake(t)

LiveSpec ==
    LiveInit /\ [][Next]_vars /\ WF_vars(Microtasks) /\ WF_vars(Completions)

\* the stopSession() call of session s has passed its guard and not settled
StopPending(s) ==
    \/ \E n \in 1..Len(mq) :
           /\ mq[n].s = s
           /\ \/ mq[n].k \in {"stopWait", "stopRet", "stopThrow", "stopSettle"}
              \/ mq[n].k = "cleanupCont" /\ mq[n].a = "stop"
    \/ \E t \in BagToSet(tasks) :
           /\ t.c = s
           /\ \/ t.k = "gzipAudio" /\ t.origin = "finish"
              \/ t.k = "poll"

\* C35: every stopSession() call that passes its state guard eventually
\* settles (returns a result or fails), whether or not a result arrives and
\* whether or not the transport is still open.
\* The poll loop sleeps again only while the 5000 ms budget is not exceeded.
C35_StopSettles ==
    /\ \A s \in ClientIds : StopPending(s) ~> ~StopPending(s)
    /\ [](\A t \in BagToSet(tasks) : t.k = "poll" => t.elapsed <= WaitBudgetMs)

\* stopSession() is polling after the budget's first sleeps, no result has
\* arrived and the transport has closed
C35_Witness ==
    \E t \in BagToSet(tasks) :
        /\ t.k = "poll"
        /\ t.elapsed > 0
        /\ StopPending(t.c)
        /\ clients[t.c].sock = "closed"
        /\ partialResults = <<>>
        /\ finalResult = <<>>

\* --------------------------------------------------------------------- C36
\* C36: an inbound frame shorter than 4 bytes, or a ServerFullResponse or
\* ServerError frame whose payload fails to decompress or parse, is reported
\* to the manager as an error result (error set, text empty), so that an error
\* event reaches a registered "error" subscriber; the connection phase and the
\* session state are left as they were.
C36_MalformedReported ==
    [][ LET Reported ==
                /\ last'.op = "result"
                /\ last'.res # <<>>
                /\ last'.res[1].error # NoError
                /\ last'.res[1].text = ""
                /\ config.errorListener
                       => \E n \in 1..Len(emitted') : emitted'[n].type = "error"
            Stays(i) ==
                /\ clients'[i].connectionState = clients[i].connectionState
                /\ currentState' = currentState
        IN  /\ \A i \in ClientIds, f \in MalformedFrames :
                   (WsMessage(i, f) /\ ResponseStart(f) # "gunzip")
                       => Reported /\ Stays(i)
            /\ \A t \in BagToSet(tasks) :
                   (/\ t.k = "gunzip"
                    /\ tasks' = DelTask(t)
                    /\ t.frame.body = "corrupt")
                       => Reported /\ Stays(t.c)
      ]_vars

\* --------------------------------------------------------------------- C37
\* C37: when the transport of the current session fails or closes after
\* connect() has resolved (with an "error" subscriber registered): no
\* exception is raised; a transport error is delivered as an error result, so
\* that the manager emits an error event; and the close of the connection
\* makes the manager emit a disconnected event and leave ready / recording.
C37_TransportLossReported ==
    [][ \A i \in ClientIds :
            (/\ config.errorListener
             /\ client = i
             /\ clients[i].connectP = "resolved"
             /\ currentState \in {"ready", "recording"})
                => /\ (clients[i].sock # "errored" /\ clients'[i].sock = "errored")
                          => /\ last'.err = "none"
                             /\ \E n \in 1..Len(emitted') : emitted'[n].type = "error"
                   /\ (clients[i].sock \in {"open", "errored"} /\ clients'[i].sock = "closed")
                          => /\ last'.err = "none"
                             /\ \E n \in 1..Len(emitted') :
                                    emitted'[n].type = "disconnected"
                             /\ currentState' \notin {"ready", "recording"}
      ]_vars

\* --------------------------------------------------------------------- C38
\* the steps in which the manager calls close() on its client: cancelSession()
\* itself, and cleanup() called from cancelSession() and from stopSession()
CallsClose == last'.op \in {"cancelSession", "cancelDone", "stopRet", "stopThrow"}

\* what close() leaves behind
AfterClose(c) ==
    /\ c.connectionState = "disconnected"
    /\ c.audioBuffer = <<>>
    /\ ~c.ws
    /\ ~c.sendInterval
    /\ c.timers = 0

\* C38: close() called in any phase leaves the client disconnected with an
\* empty queue, no transport and the flush timer stopped; called on a client
\* that close() has left so, it changes nothing; and it sends nothing: the
\* audio still queued is discarded.
C38_CloseResets ==
    [][ \A i \in ClientIds :
            (CallsClose /\ client = i)
                => /\ AfterClose(clients'[i])
                   /\ clients'[i].sent = clients[i].sent
                   /\ AfterClose(clients[i]) => clients'[i] = clients[i]
      ]_vars

\* close() has discarded a queued chunk: the chunk was accepted, is in no
\* frame sent and in no batch being compressed
C38_Witness ==
    /\ last.op = "cancelSession"
    /\ client # 0
    /\ AfterClose(clients[client])
    /\ nChunks > 0
    /\ SentAudio(clients[client].sent) = <<>>
    /\ \A t \in BagToSet(tasks) : t.k # "gzipAudio"

\* close() is called a second time on the client it has closed
C38_WitnessTwice ==
    /\ last.op = "cancelDone"
    /\ client # 0
    /\ mq # <<>>
    /\ Last(mq).k = "cleanupCont"
    /\ AfterClose(clients[client])

\* ------------------------------------------------- connect() called again
\* The protocol client driven beyond what the manager does: its owner calls
\* connect() again on a client that is connecting or connected.
ConnectWorkloads == {Workload(1, 0, TalkChunks), Workload(MaxClients, 0, 0)}

ConnectInit ==
    /\ workload \in ConnectWorkloads
    /\ config = [autoSaveHistory |-> TRUE, errorListener |-> TRUE]
    /\ currentState = "idle"
    /\ client = 0
    /\ sessionStartTime = 0
    /\ partialResults = <<>>
    /\ finalResult = <<>>
    /\ history = <<>>
    /\ clients = [i \in ClientIds |-> NewClient]
    /\ nClients = 0
    /\ tasks = EmptyBag
    /\ mq = <<>>
    /\ callerTurn = FALSE
    /\ nChunks = 0
    /\ nMsgs = 0
    /\ nEntries = 0
    /\ emitted = <<>>
    /\ last = Step("init", "none", <<>>)
    /\ rw = NoRewrite

\* connect() on client i while its phase is not disconnected
ConnectAgain(i) ==
    /\ CallerMayCall
    /\ i <= nClients
    /\ clients[i].connectionState # "disconnected"
    /\ clients' = [clients EXCEPT ![i] = connect(@).c]
    /\ last' = Step("connect", connect(clients[i]).err, <<i>>)
    /\ emitted' = <<>>
    /\ callerTurn' = Turn(mq, TRUE)
    /\ UNCHANGED <<rw, workload, config, mgrVars, nClients, tasks, mq, nChunks, nMsgs, nEntries>>

ConnectNext ==
    \/ StartSession
    \/ StartCont
    \/ SendAudio
    \/ CancelSession
    \/ CancelCont
    \/ CleanupCont
    \/ \E i \in ClientIds : WsOpen(i)
    \/ \E i \in ClientIds : WsError(i)
    \/ \E i \in ClientIds : WsClose(i)
    \/ \E i \in ClientIds : TimerTick(i)
    \/ \E t \in BagToSet(tasks) : GzipInitDone(t)
    \/ \E t \in BagToSet(tasks) : GzipAudioDone(t)
    \/ \E i \in ClientIds : ConnectAgain(i)

ConnectSpec == ConnectInit /\ [][ConnectNext]_vars

\* --------------------------------------------------------------------- C39
\* C39: connect() on a client whose phase is not disconnected fails and leaves
\* the phase, the transport, the queue and the timer of the client unchanged;
\* no second connection attempt is started.
C39_ConnectOnlyDisconnected ==
    [][ \A i \in ClientIds :
            (/\ Calls("connect")
             /\ last'.res = <<i>>
             /\ clients[i].connectionState # "disconnected")
                => /\ last'.err = "invalid_state"
                   /\ clients'[i] = clients[i]
                   /\ tasks' = tasks
      ]_vars

\* connect() was rejected on a connected client with audio queued and the
\* flush timer running
C39_Witness ==
    /\ last.op = "connect"
    /\ last.err = "invalid_state"
    /\ clients[last.res[1]].connectionState = "connected"
    /\ clients[last.res[1]].audioBuffer # <<>>
    /\ clients[last.res[1]].timers = 1

\* connect() was rejected while the first attempt is still in flight
C39_WitnessConnecting ==
    /\ last.op = "connect"
    /\ last.err = "invalid_state"
    /\ clients[last.res[1]].connectionState = "connecting"
    /\ clients[last.res[1]].connectP = "pending"

\* --------------------------------------------------------------------- C40
\* C40: for every result emitted from a ServerFullResponse frame, isPartial
\* is true exactly when bit1 of the frame's flags is clear (flags 0000 and
\* 0001: true; 0010 and 0011: false), and the sequence field in front of the
\* payload does not influence the result: its text is the text of the frame.
C40_PartialIffNotLast ==
    [][ LET FromFrame(f) ==
                (f.mtype = "full" /\ last'.op = "result" /\ last'.res # <<>>)
                    => /\ f.flags \in {0, 1} => last'.res[1].isPartial
                       /\ f.flags \in {2, 3} => ~last'.res[1].isPartial
                       /\ last'.res[1].text = f.text
                       /\ last'.res[1].error = NoError
        IN  /\ \A i \in ClientIds, f \in FramesOf(workload) :
                   (WsMessage(i, f) /\ ResponseStart(f) = "sync") => FromFrame(f)
            /\ \A t \in BagToSet(tasks) :
                   (t.k = "gunzip" /\ tasks' = DelTask(t)) => FromFrame(t.frame)
      ]_vars

\* a result from a frame with flags 0010: last package, no sequence field
C40_Witness ==
    /\ last.op = "result"
    /\ last.res # <<>>
    /\ last.res[1].text = "f2"
    /\ ~last.res[1].isPartial

\* a result from a frame with flags 0001: a sequence field, not the last
\* package
C40_WitnessSequence ==
    /\ last.op = "result"
    /\ last.res # <<>>
    /\ last.res[1].text = "f1"
    /\ last.res[1].isPartial

====
